---- MODULE Spec2Model ----
(***************************************************************************)
(* Model of the UnrealWriter editor plugin: the Blueprint/Python-callable  *)
(* static functions of UUnrealWriterPythonAPI, UShotBrowserUtility and     *)
(* UEditorReimportHandlerPythonAPI.  Every function is one call from the   *)
(* scripting layer; the model records, for the most recent call, its       *)
(* arguments, its return value and the host (engine) invocations it made.  *)
(***************************************************************************)
EXTENDS Integers, Sequences, FiniteSets

VARIABLES
    classes,          \* host's list of loaded classes derived from UShotBrowserUtility, in enumeration order
    lookups,          \* the (at most two) most recent lookups of UShotBrowserUtility::Get, oldest first: [list, result]
    pstate,           \* "running" or "crashed" (editor process)
    desktopPlatform,  \* TRUE iff FDesktopPlatformModule::Get() is non-null
    moduleLoaded,     \* TRUE iff the host has the UnrealMenuItem module loaded
    subTrack,         \* the parent sub track: tick resolution of its movie scene, number of sections
    op,               \* name of the most recent step
    args,             \* arguments of the most recent call
    ret,              \* return value of the most recent call
    hostCalls         \* host invocations made by the most recent call, in order

vars == <<classes, lookups, pstate, desktopPlatform, moduleLoaded, subTrack,
          op, args, ret, hostCalls>>

(***************************************************************************)
(* Bounds                                                                  *)
(***************************************************************************)
MaxClasses == 2       \* number of distinct Blueprint subclasses the host can load
MaxChars == 1         \* longest Characters array passed to CreateSequence
MaxPaths == 2         \* longest Paths array passed to SyncBrowserToAssets
MaxTicks == 3         \* small playback-range sizes 0..MaxTicks
MaxRate == 3          \* small tick resolutions 1..MaxRate
MaxStart == 1         \* playback-range lower bounds 0..MaxStart
MaxSections == 2      \* sections the parent track may hold
MaxIndex == 1         \* source-file slot indices -1..MaxIndex
MaxFiles == 2         \* most files the host file dialog hands back

(***************************************************************************)
(* Values shared by the facades                                            *)
(***************************************************************************)
nullptr == 0
INDEX_NONE == -1
Int32Max == 2147483647
NoValue == "void"

ClassIds == 1..MaxClasses

Last(s) == s[Len(s)]

RemoveAt(s, i) == SubSeq(s, 1, i - 1) \o SubSeq(s, i + 1, Len(s))

SeqsUpTo(S, n) == UNION {[1..k -> S] : k \in 0..n}

(***************************************************************************)
(* ShotBrowserUtility.cpp                                                  *)
(***************************************************************************)
\* UClass::GetDefaultObject followed by Cast<UShotBrowserUtility>: the class
\* default object of a derived class, identified by its class.
GetDefaultObject(Class) == Class

\* A plausible slip: the first element of the list is taken.
GetFirst(ShotBrowserUtilityClasses) ==
    LET NumClasses == Len(ShotBrowserUtilityClasses)
    IN  IF NumClasses > 0
        THEN GetDefaultObject(ShotBrowserUtilityClasses[1])
        ELSE nullptr

\* UShotBrowserUtility::Get, given the list GetDerivedClasses fills in.
Get(ShotBrowserUtilityClasses) ==
    LET NumClasses == Len(ShotBrowserUtilityClasses)
    IN  IF NumClasses > 0
        THEN GetDefaultObject(ShotBrowserUtilityClasses[NumClasses])
        ELSE nullptr

\* The lookup history after one more lookup: the list GetDerivedClasses
\* filled in and the object returned.
Remember(list, result) ==
    LET entry == [list |-> list, result |-> result]
    IN  IF lookups = <<>> THEN <<entry>> ELSE <<Last(lookups), entry>>

\* A plausible slip: the result of the first successful lookup is kept in a
\* static and returned from then on.
BlueprintGetCached ==
    /\ pstate = "running"
    /\ LET result == IF lookups # <<>> /\ Last(lookups).result # nullptr
                     THEN Last(lookups).result
                     ELSE Get(classes)
       IN  /\ lookups' = Remember(classes, result)
           /\ ret' = result
    /\ op' = "Get"
    /\ args' = <<>>
    /\ hostCalls' = <<[fn |-> "GetDerivedClasses"]>>
    /\ UNCHANGED <<classes, pstate, desktopPlatform, moduleLoaded, subTrack>>

\* A script calls UShotBrowserUtility::Get.
BlueprintGet ==
    /\ pstate = "running"
    /\ LET result == Get(classes)
       IN  /\ lookups' = Remember(classes, result)
           /\ ret' = result
    /\ op' = "Get"
    /\ args' = <<>>
    /\ hostCalls' = <<[fn |-> "GetDerivedClasses"]>>
    /\ UNCHANGED <<classes, pstate, desktopPlatform, moduleLoaded, subTrack>>

\* The host loads a Blueprint subclass: it joins the end of the derived-class list.
LoadClass(c) ==
    /\ pstate = "running"
    /\ \A i \in 1..Len(classes) : classes[i] # c
    /\ classes' = Append(classes, c)
    /\ op' = "LoadClass"
    /\ args' = <<c>>
    /\ ret' = NoValue
    /\ hostCalls' = <<>>
    /\ UNCHANGED <<lookups, pstate, desktopPlatform, moduleLoaded, subTrack>>

\* The host unloads a Blueprint subclass: it leaves the derived-class list.
UnloadClass(i) ==
    /\ pstate = "running"
    /\ i \in 1..Len(classes)
    /\ classes' = RemoveAt(classes, i)
    /\ op' = "UnloadClass"
    /\ args' = <<classes[i]>>
    /\ ret' = NoValue
    /\ hostCalls' = <<>>
    /\ UNCHANGED <<lookups, pstate, desktopPlatform, moduleLoaded, subTrack>>

(***************************************************************************)
(* UnrealWriterPythonAPI.cpp: CreateSequence                               *)
(***************************************************************************)
ShotIDs == {"sh010", "sh020"}
CharacterNames == {"hero", "villain"}
KwargKeys == {"template"}
KwargValues == {"base", "anim"}
KwargMaps == UNION {[K -> KwargValues] : K \in SUBSET KwargKeys}

\* Outcomes of calling a member function through a null pointer: the access
\* to the object faults, or the build happens to return without dispatching.
NullCallOutcomes == {"crash", "return"}

\* A plausible slip: the Characters array is not forwarded.
CreateSequenceDropsCharacters(bridge, ShotID, Characters, TemplateKwargs) ==
    <<[fn |-> "CreateSequence", self |-> bridge, ShotID |-> ShotID,
       Characters |-> <<>>, TemplateKwargs |-> TemplateKwargs]>>

\* The BlueprintImplementableEvent invocation made through a non-null bridge.
CreateSequenceEvent(bridge, ShotID, Characters, TemplateKwargs) ==
    <<[fn |-> "CreateSequence", self |-> bridge, ShotID |-> ShotID,
       Characters |-> Characters, TemplateKwargs |-> TemplateKwargs]>>

\* UUnrealWriterPythonAPI::CreateSequence
CreateSequence(ShotID, Characters, TemplateKwargs) ==
    /\ pstate = "running"
    /\ LET bridge == Get(classes)
       IN  /\ lookups' = Remember(classes, bridge)
           /\ args' = <<ShotID, Characters, TemplateKwargs>>
           /\ op' = "CreateSequence"
           /\ ret' = NoValue
           /\ IF bridge # nullptr
              THEN /\ hostCalls' = <<[fn |-> "GetDerivedClasses"]>>
                                   \o CreateSequenceEvent(bridge, ShotID, Characters, TemplateKwargs)
                   /\ pstate' = "running"
              ELSE \E outcome \in NullCallOutcomes :
                       /\ hostCalls' = <<[fn |-> "GetDerivedClasses"]>>
                       /\ pstate' = IF outcome = "crash" THEN "crashed" ELSE "running"
    /\ UNCHANGED <<classes, desktopPlatform, moduleLoaded, subTrack>>

(***************************************************************************)
(* UnrealWriterPythonAPI.cpp: AddSequenceToSubtrack                        *)
(***************************************************************************)
ExampleRates == {24, 30, 48}
ExampleTicks == {100, 1073741824, Int32Max}
Rates == (1..MaxRate) \cup ExampleRates
Ticks == (0..MaxTicks) \cup ExampleTicks

\* Child sequences: tick resolution and playback range [Lower, Upper) of the movie scene.
Sequences == {[TickResolution |-> r, Lower |-> lo, Upper |-> lo + d] :
                 r \in Rates, lo \in 0..MaxStart, d \in {t \in Ticks : t <= Int32Max - MaxStart}}
              \cup {[TickResolution |-> r, Lower |-> 0, Upper |-> d] : r \in Rates, d \in Ticks}

\* MovieScene::DiscreteSize of a closed-open frame range.
DiscreteSize(Range) == Range.Upper - Range.Lower

Radix == 256 * 256

\* The low 32 bits of the 64-bit value hi * Radix + lo, as a signed int32.
ToInt32(hi, lo) ==
    LET l == lo % Radix
        h == (hi + lo \div Radix) % Radix
    IN  IF h >= Radix \div 2 THEN (h - Radix) * Radix + l ELSE h * Radix + l

\* A plausible slip: the converted time is rounded to the nearest frame.
ConvertToRounded(Time, SourceRate, DesiredRate) ==
    IF SourceRate = DesiredRate THEN Time
    ELSE LET ph == (Time \div Radix) * DesiredRate
             pl == (Time % Radix) * DesiredRate
             qh == ph \div SourceRate
             low == (ph % SourceRate) * Radix + pl + SourceRate \div 2
             ql == low \div SourceRate
         IN  ToInt32(qh, ql)

\* FQualifiedFrameTime(Time, SourceRate).ConvertTo(DesiredRate).FrameNumber.Value
\* for a whole-frame Time: the 64-bit quotient (Time * DesiredRate) / SourceRate,
\* narrowed to the int32 frame number.  The product is formed in two 16-bit
\* limbs of Time and divided by long division.
ConvertTo(Time, SourceRate, DesiredRate) ==
    IF SourceRate = DesiredRate THEN Time
    ELSE LET ph == (Time \div Radix) * DesiredRate
             pl == (Time % Radix) * DesiredRate
             qh == ph \div SourceRate
             low == (ph % SourceRate) * Radix + pl
             ql == low \div SourceRate
         IN  ToInt32(qh, ql)

\* A plausible slip: the section starts at the child's own playback start.
AddSequenceOnRowAtLower(Sequence, OuterDuration) ==
    [fn |-> "AddSequenceOnRow", Sequence |-> Sequence, StartTime |-> Sequence.Lower,
     Duration |-> OuterDuration, RowIndex |-> INDEX_NONE]

\* SubTrack->AddSequenceOnRow(Sequence, FFrameNumber(0), OuterDuration, INDEX_NONE)
AddSequenceOnRow(Sequence, OuterDuration) ==
    [fn |-> "AddSequenceOnRow", Sequence |-> Sequence, StartTime |-> 0,
     Duration |-> OuterDuration, RowIndex |-> INDEX_NONE]

\* UUnrealWriterPythonAPI::AddSequenceToSubtrack
AddSequenceToSubtrack(Sequence) ==
    /\ pstate = "running"
    /\ subTrack.NumSections < MaxSections
    /\ LET TickResolution == Sequence.TickResolution
           SequenceRange == DiscreteSize(Sequence)
           OuterFrameRate == subTrack.TickResolution
           OuterDuration == ConvertTo(SequenceRange, TickResolution, OuterFrameRate)
       IN  /\ hostCalls' = <<AddSequenceOnRow(Sequence, OuterDuration)>>
           /\ subTrack' = [subTrack EXCEPT !.NumSections = @ + 1]
    /\ op' = "AddSequenceToSubtrack"
    /\ args' = <<subTrack, Sequence>>
    /\ ret' = NoValue
    /\ UNCHANGED <<classes, lookups, pstate, desktopPlatform, moduleLoaded>>

InitTrack ==
    /\ classes = <<>>
    /\ lookups = <<>>
    /\ pstate = "running"
    /\ desktopPlatform = TRUE
    /\ moduleLoaded = FALSE
    /\ \E r \in Rates : subTrack = [TickResolution |-> r, NumSections |-> 0]
    /\ op = "none"
    /\ args = <<>>
    /\ ret = NoValue
    /\ hostCalls = <<>>

NextTrack == \E seq \in Sequences : AddSequenceToSubtrack(seq)

SpecTrack == InitTrack /\ [][NextTrack]_vars

(***************************************************************************)
(* UnrealWriterPythonAPI.cpp: DisplaySequencerActionsDialog,               *)
(* IsUnrealMenuItemLoaded                                                  *)
(***************************************************************************)
SequenceNames == {"", "seq_010"}

\* Responses the host's OkCancel message dialog can give.
OkCancelResponses == {"Ok", "Cancel"}

\* A plausible slip: the response is compared with the wrong enumerator.
ResponseIsCancel(Response) == Response = "Cancel"

\* return Response == EAppReturnType::Ok;
ResponseIsOk(Response) == Response = "Ok"

\* UUnrealWriterPythonAPI::DisplaySequencerActionsDialog
DisplaySequencerActionsDialog(SequenceName) ==
    /\ pstate = "running"
    /\ \E Response \in OkCancelResponses :
           /\ hostCalls' = <<[fn |-> "FMessageDialog::Open", MessageType |-> "OkCancel",
                              Message |-> <<"The following actions will be executed to assemble the Unreal sequence: {0}",
                                            SequenceName>>,
                              Title |-> "UnrealWriter Sequence Assembly",
                              Response |-> Response]>>
           /\ ret' = ResponseIsOk(Response)
    /\ op' = "DisplaySequencerActionsDialog"
    /\ args' = <<SequenceName>>
    /\ UNCHANGED <<classes, lookups, pstate, desktopPlatform, moduleLoaded, subTrack>>

\* UUnrealWriterPythonAPI::IsUnrealMenuItemLoaded
IsUnrealMenuItemLoaded ==
    /\ pstate = "running"
    /\ hostCalls' = <<[fn |-> "IsModuleLoaded", ModuleName |-> "UnrealMenuItem",
                       Result |-> moduleLoaded]>>
    /\ ret' = moduleLoaded
    /\ op' = "IsUnrealMenuItemLoaded"
    /\ args' = <<>>
    /\ UNCHANGED <<classes, lookups, pstate, desktopPlatform, moduleLoaded, subTrack>>

(***************************************************************************)
(* UnrealWriterPythonAPI.cpp: OpenFileDialog                               *)
(***************************************************************************)
DialogTitles == {"Pick a file"}
FileTypeFilters == {"", "FBX|*.fbx"}
FileNames == {"/tmp/a.fbx", "/tmp/b.fbx"}

\* What the host dialog does with the out-parameter: on cancel it reports
\* FALSE and adds nothing; on accept it reports TRUE and adds the selection.
DialogOutcomes ==
    {[Opened |-> FALSE, OutFilenames |-> <<>>]}
    \cup {[Opened |-> TRUE, OutFilenames |-> f] : f \in SeqsUpTo(FileNames, MaxFiles) \ {<<>>}}

\* A plausible slip: the dialog is opened without testing the platform handle.
OpenFileDialogUnchecked(platform, DialogTitle, FileTypes, outcome) ==
    <<[fn |-> "IDesktopPlatform::OpenFileDialog", ParentWindowHandle |-> nullptr,
       DialogTitle |-> DialogTitle, DefaultPath |-> "", DefaultFile |-> "",
       FileTypes |-> FileTypes, Flags |-> 0,
       Opened |-> outcome.Opened, OutFilenames |-> outcome.OutFilenames]>>

\* The host invocations of OpenFileDialog: the dialog, if the platform handle is non-null.
OpenFileDialogCalls(platform, DialogTitle, FileTypes, outcome) ==
    IF platform
    THEN <<[fn |-> "IDesktopPlatform::OpenFileDialog", ParentWindowHandle |-> nullptr,
            DialogTitle |-> DialogTitle, DefaultPath |-> "", DefaultFile |-> "",
            FileTypes |-> FileTypes, Flags |-> 0,
            Opened |-> outcome.Opened, OutFilenames |-> outcome.OutFilenames]>>
    ELSE <<>>

\* UUnrealWriterPythonAPI::OpenFileDialog
OpenFileDialog(DialogTitle, FileTypes) ==
    /\ pstate = "running"
    /\ \E outcome \in DialogOutcomes :
           LET calls == OpenFileDialogCalls(desktopPlatform, DialogTitle, FileTypes, outcome)
               outFileNames == IF calls = <<>> THEN <<>> ELSE calls[1].OutFilenames
           IN  /\ hostCalls' = calls
               /\ ret' = outFileNames
    /\ op' = "OpenFileDialog"
    /\ args' = <<DialogTitle, FileTypes>>
    /\ UNCHANGED <<classes, lookups, pstate, desktopPlatform, moduleLoaded, subTrack>>

(***************************************************************************)
(* UnrealWriterPythonAPI.cpp: SyncBrowserToAssets                          *)
(***************************************************************************)
\* Package paths as character sequences.
PathPool == {<<"/", "A">>, <<"/", "a">>, <<"/", "B">>, <<>>}

LowerChar(c) == CASE c = "A" -> "a" [] c = "B" -> "b" [] OTHER -> c

\* FName(const TCHAR*): the name's identity is its comparison entry, which
\* ignores case.
FName(path) == [i \in 1..Len(path) |-> LowerChar(path[i])]

RECURSIVE PathNamesSkipLast(_)
\* A plausible slip: the loop stops one element early.
PathNamesSkipLast(Paths) ==
    IF Len(Paths) <= 1 THEN <<>>
    ELSE <<FName(Paths[1])>> \o PathNamesSkipLast(SubSeq(Paths, 2, Len(Paths)))

RECURSIVE PathNames(_)
\* for (FString path : Paths) pathNames.Add(*path);
PathNames(Paths) ==
    IF Paths = <<>> THEN <<>>
    ELSE <<FName(Paths[1])>> \o PathNames(SubSeq(Paths, 2, Len(Paths)))

\* The host's asset registry: the assets it knows, by package name.
RegistryAssets ==
    {[PackageName |-> <<"/", "a">>, AssetName |-> "A"],
     [PackageName |-> <<"/", "a">>, AssetName |-> "A_C"],
     [PackageName |-> <<"/", "b">>, AssetName |-> "B"],
     [PackageName |-> <<"/", "c">>, AssetName |-> "C"]}

\* IAssetRegistry::GetAssets for a filter that only names packages: the
\* assets of the named packages (none for an empty filter).
GetAssets(PackageNames) ==
    {a \in RegistryAssets : \E i \in 1..Len(PackageNames) : a.PackageName = PackageNames[i]}

\* UUnrealWriterPythonAPI::SyncBrowserToAssets
SyncBrowserToAssets(Paths) ==
    /\ pstate = "running"
    /\ LET pathNames == PathNames(Paths)
           assetData == GetAssets(pathNames)
       IN  hostCalls' = <<[fn |-> "GetAssets", PackageNames |-> pathNames, OutAssetData |-> assetData],
                          [fn |-> "SyncBrowserToAssets", AssetDataList |-> assetData]>>
    /\ ret' = NoValue
    /\ op' = "SyncBrowserToAssets"
    /\ args' = <<Paths>>
    /\ UNCHANGED <<classes, lookups, pstate, desktopPlatform, moduleLoaded, subTrack>>

(***************************************************************************)
(* EditorReimportManagerPythonAPIBPLibrary.cpp                             *)
(***************************************************************************)
Objects == {"SM_Rock", "T_Rock"}
Filenames == {"/src/rock.fbx"}
SourceFileIndices == INDEX_NONE..MaxIndex

\* UEditorReimportHandlerPythonAPI::CanReimport
CanReimport(Obj) ==
    /\ pstate = "running"
    /\ \E Result \in BOOLEAN :
           /\ hostCalls' = <<[fn |-> "FReimportManager::CanReimport", Obj |-> Obj, Result |-> Result]>>
           /\ ret' = Result
    /\ op' = "CanReimport"
    /\ args' = <<Obj>>
    /\ UNCHANGED <<classes, lookups, pstate, desktopPlatform, moduleLoaded, subTrack>>

\* UEditorReimportHandlerPythonAPI::UpdateReimportPath
UpdateReimportPath(Obj, Filename, SourceFileIndex) ==
    /\ pstate = "running"
    /\ hostCalls' = <<[fn |-> "FReimportManager::UpdateReimportPath", Obj |-> Obj,
                       Filename |-> Filename, SourceFileIndex |-> SourceFileIndex]>>
    /\ ret' = NoValue
    /\ op' = "UpdateReimportPath"
    /\ args' = <<Obj, Filename, SourceFileIndex>>
    /\ UNCHANGED <<classes, lookups, pstate, desktopPlatform, moduleLoaded, subTrack>>

\* A plausible slip: the host's defaults are used throughout (bAutomated = false).
ReimportAllDefaults(Obj, SourceFileIndex, Result) ==
    [fn |-> "FReimportManager::Reimport", Obj |-> Obj,
     bAskForNewFileIfMissing |-> FALSE, bShowNotification |-> TRUE,
     PreferredReimportFile |-> "", SpecifiedReimportHandler |-> nullptr,
     SourceFileIndex |-> SourceFileIndex, bForceNewFile |-> FALSE, bAutomated |-> FALSE,
     Result |-> Result]

\* FReimportManager::Instance()->Reimport(Obj, false, true, TEXT(""), nullptr, SourceFileIndex, false, true)
ReimportCall(Obj, SourceFileIndex, Result) ==
    [fn |-> "FReimportManager::Reimport", Obj |-> Obj,
     bAskForNewFileIfMissing |-> FALSE, bShowNotification |-> TRUE,
     PreferredReimportFile |-> "", SpecifiedReimportHandler |-> nullptr,
     SourceFileIndex |-> SourceFileIndex, bForceNewFile |-> FALSE, bAutomated |-> TRUE,
     Result |-> Result]

\* UEditorReimportHandlerPythonAPI::Reimport
Reimport(Obj, SourceFileIndex) ==
    /\ pstate = "running"
    /\ \E Result \in BOOLEAN :
           /\ hostCalls' = <<ReimportCall(Obj, SourceFileIndex, Result)>>
           /\ ret' = hostCalls'[1].Result
    /\ op' = "Reimport"
    /\ args' = <<Obj, SourceFileIndex>>
    /\ UNCHANGED <<classes, lookups, pstate, desktopPlatform, moduleLoaded, subTrack>>

(***************************************************************************)
(* Specification of the forwarding facades                                 *)
(***************************************************************************)
InitFacade ==
    /\ classes = <<>>
    /\ lookups = <<>>
    /\ pstate = "running"
    /\ desktopPlatform \in BOOLEAN
    /\ moduleLoaded \in BOOLEAN
    /\ subTrack = [TickResolution |-> 1, NumSections |-> 0]
    /\ op = "none"
    /\ args = <<>>
    /\ ret = NoValue
    /\ hostCalls = <<>>

NextFacade ==
    \/ \E n \in SequenceNames : DisplaySequencerActionsDialog(n)
    \/ IsUnrealMenuItemLoaded
    \/ \E t \in DialogTitles, f \in FileTypeFilters : OpenFileDialog(t, f)
    \/ \E p \in SeqsUpTo(PathPool, MaxPaths) : SyncBrowserToAssets(p)
    \/ \E o \in Objects : CanReimport(o)
    \/ \E o \in Objects, f \in Filenames, i \in SourceFileIndices : UpdateReimportPath(o, f, i)
    \/ \E o \in Objects, i \in SourceFileIndices : Reimport(o, i)

SpecFacade == InitFacade /\ [][NextFacade]_vars

(***************************************************************************)
(* Specification of the extension point                                    *)
(***************************************************************************)
InitExtension ==
    /\ classes = <<>>
    /\ lookups = <<>>
    /\ pstate = "running"
    /\ desktopPlatform = TRUE
    /\ moduleLoaded = FALSE
    /\ subTrack = [TickResolution |-> 1, NumSections |-> 0]
    /\ op = "none"
    /\ args = <<>>
    /\ ret = NoValue
    /\ hostCalls = <<>>

NextExtension ==
    \/ \E c \in ClassIds : LoadClass(c)
    \/ \E i \in 1..MaxClasses : UnloadClass(i)
    \/ BlueprintGet
    \/ \E s \in ShotIDs, ch \in SeqsUpTo(CharacterNames, MaxChars), kw \in KwargMaps :
           CreateSequence(s, ch, kw)

SpecExtension == InitExtension /\ [][NextExtension]_vars

(***************************************************************************)
(* Properties of the extension point                                       *)
(***************************************************************************)
LookupOps == {"Get", "CreateSequence"}

\* The object the most recent lookup returned.
Bridge == Last(lookups).result

\* The implementation invocations among the host calls of the most recent call.
ImplementationCalls == SelectSeq(hostCalls, LAMBDA c : c.fn = "CreateSequence")

\* C1: with no subclass registered, the lookup returns a null reference and
\* CreateSequence is a no-op: no implementation is called and the process
\* does not reach a crash state.
C1_NullBridgeIsNoOp ==
    (op = "CreateSequence" /\ classes = <<>>)
        => /\ Bridge = nullptr
           /\ ImplementationCalls = <<>>
           /\ pstate = "running"

\* C3: with one or more registered subclasses, Get returns the default
\* object of the last element of the derived-class list, and a lookup of the
\* same list as the lookup before it returns the same implementation.
C3_GetReturnsLast ==
    [][(op' = "Get" /\ classes' # <<>>)
          => /\ ret' = GetDefaultObject(classes'[Len(classes')])
             /\ (lookups # <<>> /\ Last(lookups).list = classes')
                    => ret' = Last(lookups).result]_vars

C3_Witness ==
    /\ op = "Get"
    /\ Len(classes) > 1
    /\ Len(lookups) = 2
    /\ lookups[1].list = classes
    /\ lookups[2].list = classes
    /\ ret = classes[Len(classes)]
    /\ ret = lookups[1].result

\* C5: with an implementation registered, CreateSequence invokes the
\* implementation returned by the lookup exactly once, with the caller's
\* shot id, character list and keyword map unchanged, and does nothing else.
C5_DelegatesEntirely ==
    (op = "CreateSequence" /\ classes # <<>>)
        => /\ pstate = "running"
           /\ Bridge # nullptr
           /\ Len(ImplementationCalls) = 1
           /\ ImplementationCalls[1].self = Bridge
           /\ ImplementationCalls[1].ShotID = args[1]
           /\ ImplementationCalls[1].Characters = args[2]
           /\ ImplementationCalls[1].TemplateKwargs = args[3]
           /\ Len(hostCalls) = 2
           /\ hostCalls[1].fn = "GetDerivedClasses"

C5_Witness ==
    /\ op = "CreateSequence"
    /\ Len(classes) = 2
    /\ Len(ImplementationCalls) = 1
    /\ args[2] # <<>>
    /\ DOMAIN args[3] # {}

\* C9: no caching: after any interleaving of class loads and unloads, each
\* lookup (by Get or by CreateSequence) yields the last element of the
\* derived-class list as it is at that call, and null when the list is empty.
C9_ResolvedAfresh ==
    op \in LookupOps
        => /\ Last(lookups).list = classes
           /\ Bridge = (IF classes = <<>> THEN nullptr ELSE classes[Len(classes)])
           /\ (op = "Get" => ret = Bridge)
           /\ (op = "CreateSequence" /\ Bridge # nullptr
                  => \A i \in 1..Len(ImplementationCalls) :
                         ImplementationCalls[i].self = Bridge)

\* A lookup that follows a lookup with a different, non-null result: the
\* list changed in between and the later call selected the new last element.
C9_Witness ==
    /\ op = "Get"
    /\ Len(lookups) = 2
    /\ lookups[1].result # nullptr
    /\ ret # nullptr
    /\ ret # lookups[1].result
    /\ Len(classes) = 2

(***************************************************************************)
(* Properties of AddSequenceToSubtrack                                     *)
(***************************************************************************)
\* floor(D * R2 / R1) for D >= 0, formed from the quotient and remainder of
\* D by R1; meaningful when FitsInt32 holds.
FloorMulDiv(D, R2, R1) == (D \div R1) * R2 + ((D % R1) * R2) \div R1

\* floor(D * R2 / R1) <= Int32Max
FitsInt32(D, R2, R1) == (D \div R1) <= (Int32Max - ((D % R1) * R2) \div R1) \div R2

\* Of the most recent call: the child's size and rate, the parent's rate.
ChildTicks == args[2].Upper - args[2].Lower
ChildRate == args[2].TickResolution
ParentRate == args[1].TickResolution

\* C2 as stated: for every D >= 0 and all positive R1, R2 the duration
\* passed to the insertion equals floor(D * R2 / R1).
C2_DurationIsFloorForAll ==
    op = "AddSequenceToSubtrack"
        => /\ FitsInt32(ChildTicks, ParentRate, ChildRate)
           /\ hostCalls[1].Duration = FloorMulDiv(ChildTicks, ParentRate, ChildRate)

\* C2 amended: whenever floor(D * R2 / R1) fits the int32 duration, the
\* duration passed to the insertion equals floor(D * R2 / R1) (truncation).
C2_DurationIsFloorWhenRepresentable ==
    (op = "AddSequenceToSubtrack" /\ FitsInt32(ChildTicks, ParentRate, ChildRate))
        => hostCalls[1].Duration = FloorMulDiv(ChildTicks, ParentRate, ChildRate)

\* D=1 at R1=3 converted to R2=2: a non-integral quotient, truncated to 0.
C2_Witness ==
    /\ op = "AddSequenceToSubtrack"
    /\ ChildTicks = 1
    /\ ChildRate = 3
    /\ ParentRate = 2
    /\ hostCalls[1].Duration = 0

\* C10: each call performs exactly one insertion on the parent track, of the
\* child sequence, at start frame 0 and row INDEX_NONE, whatever the child's
\* playback start and whatever the track already holds.
C10_OneInsertionAtZero ==
    [][op' = "AddSequenceToSubtrack"
          => /\ Len(hostCalls') = 1
             /\ hostCalls'[1].fn = "AddSequenceOnRow"
             /\ hostCalls'[1].Sequence = args'[2]
             /\ hostCalls'[1].StartTime = 0
             /\ hostCalls'[1].RowIndex = INDEX_NONE
             /\ subTrack'.NumSections = subTrack.NumSections + 1]_vars

\* An insertion of a child whose playback range starts after frame 0, on a
\* track that already holds a section.
C10_Witness ==
    /\ op = "AddSequenceToSubtrack"
    /\ args[2].Lower > 0
    /\ args[1].NumSections > 0
    /\ hostCalls[1].StartTime = 0
    /\ subTrack.NumSections = args[1].NumSections + 1

(***************************************************************************)
(* Properties of the forwarding facades                                    *)
(***************************************************************************)
Elements(seq) == {seq[i] : i \in 1..Len(seq)}

\* C4: OpenFileDialog returns an empty sequence when the platform dialog
\* service is unavailable (the host dialog is then never invoked) or the user
\* cancels; otherwise it returns the host's selected paths in order.
C4_EmptyWhenUnavailableOrCancelled ==
    op = "OpenFileDialog"
        => /\ ~desktopPlatform => (hostCalls = <<>> /\ ret = <<>>)
           /\ desktopPlatform
                 => /\ Len(hostCalls) = 1
                    /\ hostCalls[1].fn = "IDesktopPlatform::OpenFileDialog"
                    /\ ~hostCalls[1].Opened => ret = <<>>
                    /\ hostCalls[1].Opened => ret = hostCalls[1].OutFilenames

\* A call with no platform dialog service: nothing invoked, nothing returned.
C4_Witness ==
    /\ op = "OpenFileDialog"
    /\ ~desktopPlatform
    /\ hostCalls = <<>>
    /\ ret = <<>>

\* C6: the registry filter's package names are exactly the identifiers of
\* the input paths (none added, none dropped, whatever the input order), and
\* the content browser is asked to select exactly the records the registry
\* returned for that filter.
C6_FilterIsExactlyInputPaths ==
    op = "SyncBrowserToAssets"
        => /\ Len(hostCalls) = 2
           /\ hostCalls[1].fn = "GetAssets"
           /\ Elements(hostCalls[1].PackageNames) = {FName(p) : p \in Elements(args[1])}
           /\ hostCalls[2].fn = "SyncBrowserToAssets"
           /\ hostCalls[2].AssetDataList = hostCalls[1].OutAssetData

\* Two different paths: both identifiers are in the filter and their assets are selected.
C6_Witness ==
    /\ op = "SyncBrowserToAssets"
    /\ args[1] = <<<<"/", "B">>, <<"/", "A">>>>
    /\ Elements(hostCalls[1].PackageNames) = {<<"/", "a">>, <<"/", "b">>}
    /\ Cardinality(hostCalls[2].AssetDataList) = 3

\* C7: the dialog returns true exactly when the OkCancel dialog's response
\* is Ok, false on cancel, and nothing other than true or false.
C7_TrueIffOk ==
    op = "DisplaySequencerActionsDialog"
        => /\ ret \in BOOLEAN
           /\ Len(hostCalls) = 1
           /\ hostCalls[1].MessageType = "OkCancel"
           /\ ret <=> (hostCalls[1].Response = "Ok")
           /\ hostCalls[1].Response = "Cancel" => ret = FALSE

C7_Witness ==
    /\ op = "DisplaySequencerActionsDialog"
    /\ hostCalls[1].Response = "Cancel"
    /\ ret = FALSE

\* C8: Reimport invokes the host reimport manager exactly once, for the
\* caller's asset and source-file index, with the fixed arguments (no ask for
\* a missing file, show notification, empty preferred file, no handler, no
\* forced new file, automated), and returns the host's result without retry.
C8_ReimportForwardsOnce ==
    op = "Reimport"
        => /\ Len(hostCalls) = 1
           /\ hostCalls[1].fn = "FReimportManager::Reimport"
           /\ hostCalls[1].Obj = args[1]
           /\ hostCalls[1].SourceFileIndex = args[2]
           /\ hostCalls[1].bAskForNewFileIfMissing = FALSE
           /\ hostCalls[1].bShowNotification = TRUE
           /\ hostCalls[1].PreferredReimportFile = ""
           /\ hostCalls[1].SpecifiedReimportHandler = nullptr
           /\ hostCalls[1].bForceNewFile = FALSE
           /\ hostCalls[1].bAutomated = TRUE
           /\ ret = hostCalls[1].Result

\* A failed reimport from slot 1: one host invocation, FALSE returned.
C8_Witness ==
    /\ op = "Reimport"
    /\ args[2] = 1
    /\ Len(hostCalls) = 1
    /\ hostCalls[1].Result = FALSE
    /\ ret = FALSE

====
